---- MODULE Spec2Model ----
(***************************************************************************)
(* mm-errors: the Error value (src/lib.rs), its XML rendering, the         *)
(* call-site macros try_wrap!, new_error!, new_result!, try_opt!,          *)
(* try_opt_ref!, and the Oks iterator adapter (src/oks.rs).                *)
(*                                                                         *)
(* Text is modelled as a sequence of one-character strings, so that        *)
(* concatenation, verbatim emission and the position of every tag are      *)
(* things the model computes.                                              *)
(***************************************************************************)
EXTENDS Integers, Sequences, FiniteSets

VARIABLES
    pc,       \* "call": the call chain is being entered; "ret": a result travels up; "done": the outermost caller holds it
    stack,    \* the functions entered and not yet returned, each the call site of its try_wrap!
    res,      \* the result in flight: NoResult, Ok(v) or Err(e)
    resumed,  \* the functions (by depth) whose statement after the macro ran
    called,   \* history: the call sites of the try_wrap! functions entered, outermost first
    origin,   \* history: the innermost operation and its inputs
    obs,      \* what the last observer call (Display, Debug, description, cause) returned
    src,      \* the items the source iterator yields, one entry per next() call
    raw,      \* the source iterator before oks() takes it: Some(iterator), None once moved
    its,      \* the Oks adapters alive, each owning its source iterator
    outs,     \* history: what each adapter's next() returned, in call order
    born      \* history: per adapter, its source's cursor at creation, and for a clone
              \* the adapter cloned and how many next() calls that one had answered

errVars == <<pc, stack, res, resumed, called, origin, obs>>
oksVars == <<src, raw, its, outs, born>>
vars == <<pc, stack, res, resumed, called, origin, obs, src, raw, its, outs, born>>

(***************************************************************************)
(* Bounds.                                                                 *)
(***************************************************************************)
MaxDepth == 3      \* try_wrap! functions on the call chain
MaxLen == 2        \* next() results the source gives before it is exhausted for good
MaxCalls == 4      \* next() calls made on one adapter
MaxClones == 1     \* clones made

(***************************************************************************)
(* Option and Result.                                                      *)
(***************************************************************************)
None == [tag |-> "None"]
Some(x) == [tag |-> "Some", v |-> x]
Ok(x) == [tag |-> "Ok", v |-> x]
Err(e) == [tag |-> "Err", e |-> e]
NoResult == [tag |-> "Pending"]

(***************************************************************************)
(* Text.                                                                   *)
(***************************************************************************)
ErrorOpen == <<"<", "e", "r", "r", "o", "r", ">">>
ErrorClose == <<"<", "/", "e", "r", "r", "o", "r", ">">>
FileOpen == <<"<", "f", "i", "l", "e", ">">>
FileClose == <<"<", "/", "f", "i", "l", "e", ">">>
LineOpen == <<"<", "l", "i", "n", "e", ">">>
LineClose == <<"<", "/", "l", "i", "n", "e", ">">>
ReasonOpen == <<"<", "r", "e", "a", "s", "o", "n", ">">>
ReasonClose == <<"<", "/", "r", "e", "a", "s", "o", "n", ">">>

Digits == <<"0", "1", "2", "3", "4", "5", "6", "7", "8", "9">>

\* "{}" of a u32: its decimal digits, most significant first, no sign, no padding.
RECURSIVE Decimal(_)
Decimal(n) ==
    IF n < 10 THEN <<Digits[n + 1]>>
    ELSE Decimal(n \div 10) \o <<Digits[(n % 10) + 1]>>

(***************************************************************************)
(* Inputs.                                                                 *)
(***************************************************************************)
FileA == <<"a", ".", "r", "s">>
FileB == <<"s", "r", "c", "/", "m", ".", "r", "s">>

\* file!() and line!() of a macro's call site (line is a u32; the largest line
\* used here is the largest integer the model checker represents)
Sites == { [file |-> FileA, line |-> 7],
           [file |-> FileB, line |-> 10],
           [file |-> FileA, line |-> 2147483647] }

MsgPlain == <<"b", "a", "d">>
MsgMarkup == <<"a", "<", "b", ">", " ", "&">>
MsgError == ErrorOpen \o FileOpen \o FileA \o FileClose \o LineOpen \o <<"1">> \o LineClose
            \o ReasonOpen \o <<"x">> \o ReasonClose \o ErrorClose
Messages == { <<>>, MsgPlain, MsgMarkup, MsgError }

\* the success values (u32)
Values == { [tag |-> "U32", n |-> 0], [tag |-> "U32", n |-> 42] }

\* Errors of other crates: a text (Display) and an optional upstream cause.
ParseIntError ==
    [tag |-> "Foreign",
     text |-> <<"i", "n", "v", "a", "l", "i", "d", " ", "d", "i", "g", "i", "t">>,
     cause |-> None]
OuterError ==
    [tag |-> "Foreign", text |-> <<"i", "o", "<", "/", "e", "r", "r", "o", "r", ">">>,
     cause |-> Some(ParseIntError)]
ForeignErrors == { ParseIntError, OuterError }

(***************************************************************************)
(* Error (src/lib.rs).                                                     *)
(***************************************************************************)
KindString(s) == [tag |-> "String", s |-> s]
KindWrapped(e) == [tag |-> "Wrapped", e |-> e]

ErrorNew(message, file, line) ==
    [tag |-> "Error", file |-> file, line |-> line, kind |-> KindString(message)]

\* a wrap that stamps the new location on the error handed in as well
ErrorWrapRestamp(e, file, line) ==
    [tag |-> "Error", file |-> file, line |-> line,
     kind |-> [tag |-> "Wrapped",
               e |-> IF e.tag = "Error" THEN [e EXCEPT !.file = file, !.line = line] ELSE e]]

ErrorWrap(e, file, line) ==
    [tag |-> "Error", file |-> file, line |-> line, kind |-> KindWrapped(e)]

RECURSIVE FormatXml(_)
\* a rendering of the inner error that shows a wrapped Error by its message alone
RECURSIVE InnermostText(_)
InnermostText(e) ==
    IF e.tag # "Error" THEN e.text
    ELSE IF e.kind.tag = "String" THEN e.kind.s
    ELSE InnermostText(e.kind.e)

DisplayDynMessage(e) == InnermostText(e)

\* "{}" of the boxed inner error: dynamic dispatch on what was wrapped.
DisplayDyn(e) == IF e.tag = "Error" THEN FormatXml(e) ELSE e.text

\* a rendering that escapes the markup characters of a message
RECURSIVE Escape(_)
Escape(s) ==
    IF s = <<>> THEN <<>>
    ELSE (IF Head(s) = "<" THEN <<"&", "l", "t", ";">>
          ELSE IF Head(s) = ">" THEN <<"&", "g", "t", ";">>
          ELSE <<Head(s)>>) \o Escape(Tail(s))

FormatXmlEscaped(self) ==
    ErrorOpen \o FileOpen \o self.file \o FileClose
    \o LineOpen \o Decimal(self.line) \o LineClose
    \o (IF self.kind.tag = "String"
        THEN ReasonOpen \o Escape(self.kind.s) \o ReasonClose
        ELSE ReasonOpen \o DisplayDyn(self.kind.e) \o ReasonClose)
    \o ErrorClose

FormatXml(self) ==
    ErrorOpen
    \o FileOpen \o self.file
    \o FileClose
    \o LineOpen \o Decimal(self.line)
    \o LineClose
    \o (IF self.kind.tag = "String"
        THEN ReasonOpen \o self.kind.s \o ReasonClose
        ELSE ReasonOpen \o DisplayDyn(self.kind.e) \o ReasonClose)
    \o ErrorClose

Display(self) == FormatXml(self)

Debug(self) == Display(self)

Description(self) == "font processing error"

RECURSIVE Cause(_)
\* e.cause() on the boxed inner error
CauseDyn(e) == IF e.tag = "Error" THEN Cause(e) ELSE e.cause

\* a lookup that hands out the wrapped error itself
CauseDirect(self) ==
    IF self.kind.tag = "String" THEN None ELSE Some(self.kind.e)

Cause(self) ==
    IF self.kind.tag = "String" THEN None ELSE CauseDyn(self.kind.e)

(***************************************************************************)
(* The macros.  A macro either yields a value to the surrounding           *)
(* expression or returns from the enclosing function.                      *)
(***************************************************************************)
Yield(x) == [ctl |-> "yield", v |-> x]
Return(r) == [ctl |-> "return", v |-> r]

\* a propagation that hands an Error on as it is, as try! would
TryWrapPlain(exp, site) ==
    IF exp.tag = "Ok" THEN [ctl |-> "yield", v |-> exp.v]
    ELSE IF exp.e.tag = "Error" THEN [ctl |-> "return", v |-> exp]
    ELSE [ctl |-> "return", v |-> Err(ErrorWrap(exp.e, site.file, site.line))]

TryWrap(exp, site) ==
    IF exp.tag = "Ok" THEN Yield(exp.v)
    ELSE Return(Err(ErrorWrap(exp.e, site.file, site.line)))

NewError(message, site) == ErrorNew(message, site.file, site.line)

\* a shorthand that drops the message
NewResultBlank(message, site) == Err(NewError(<<>>, site))

NewResult(message, site) == Err(NewError(message, site))

TryOpt(exp, message, site) ==
    IF exp.tag = "Some" THEN Yield(exp.v)
    ELSE Return(Err(ErrorNew(message, site.file, site.line)))

Ref(x) == [tag |-> "Ref", to |-> x]

\* a by-reference variant that wraps the message as a cause
TryOptRefWrapped(exp, message, site) ==
    IF exp.tag = "Some" THEN Yield(Ref(exp.v))
    ELSE Return(Err(ErrorWrap([tag |-> "Foreign", text |-> message, cause |-> None],
                              site.file, site.line)))

TryOptRef(exp, message, site) ==
    IF exp.tag = "Some" THEN Yield(Ref(exp.v))
    ELSE Return(Err(ErrorNew(message, site.file, site.line)))

(***************************************************************************)
(* A program using the macros: a chain of functions, each                  *)
(*     let v = try_wrap!(callee()); Ok(v)                                  *)
(* around an innermost operation.                                          *)
(***************************************************************************)
InitErr ==
    /\ pc = "call"
    /\ stack = <<>>
    /\ res = NoResult
    /\ resumed = {}
    /\ called = <<>>
    /\ origin = [how |-> "none"]
    /\ obs = [op |-> "none"]

Landed == IF stack = <<>> THEN "done" ELSE "ret"

\* enter the next function of the chain
Call(site) ==
    /\ pc = "call"
    /\ Len(stack) < MaxDepth
    /\ stack' = Append(stack, site)
    /\ called' = Append(called, site)
    /\ UNCHANGED <<pc, res, resumed, origin, obs, oksVars>>

\* the innermost try_wrap! is applied to an expression of another crate,
\* as in try_wrap!("XXX".parse::<u32>())
LeafExpr(r) ==
    /\ pc = "call"
    /\ stack # <<>>
    /\ res' = r
    /\ pc' = "ret"
    /\ origin' = [how |-> "expr", r |-> r]
    /\ UNCHANGED <<stack, resumed, called, obs, oksVars>>

\* the innermost function is: return new_result!(m);
LeafNewResult(m, site) ==
    /\ pc = "call"
    /\ res' = NewResult(m, site)
    /\ pc' = Landed
    /\ origin' = [how |-> "new_result", m |-> m, site |-> site]
    /\ UNCHANGED <<stack, resumed, called, obs, oksVars>>

\* the statement of a function after its macro yielded x: Ok(x)
Continue(depth, x) ==
    /\ resumed' = resumed \cup {depth}
    /\ res' = Ok(x)

\* the innermost function is: let x = try_opt!(exp, m); Ok(x)
LeafTryOpt(exp, m, site) ==
    /\ pc = "call"
    /\ LET r == TryOpt(exp, m, site) IN
         IF r.ctl = "yield"
         THEN Continue(Len(stack) + 1, r.v)
         ELSE res' = r.v /\ UNCHANGED resumed
    /\ pc' = Landed
    /\ origin' = [how |-> "try_opt", exp |-> exp, m |-> m, site |-> site]
    /\ UNCHANGED <<stack, called, obs, oksVars>>

\* the innermost function is: let x = try_opt_ref!(exp, m); Ok(x)
LeafTryOptRef(exp, m, site) ==
    /\ pc = "call"
    /\ LET r == TryOptRef(exp, m, site) IN
         IF r.ctl = "yield"
         THEN Continue(Len(stack) + 1, r.v)
         ELSE res' = r.v /\ UNCHANGED resumed
    /\ pc' = Landed
    /\ origin' = [how |-> "try_opt_ref", exp |-> exp, m |-> m, site |-> site]
    /\ UNCHANGED <<stack, called, obs, oksVars>>

\* the callee returned: the try_wrap! of the innermost pending function acts
Propagate ==
    /\ pc = "ret"
    /\ stack # <<>>
    /\ LET r == TryWrap(res, stack[Len(stack)]) IN
         IF r.ctl = "yield"
         THEN Continue(Len(stack), r.v)
         ELSE res' = r.v /\ UNCHANGED resumed
    /\ stack' = SubSeq(stack, 1, Len(stack) - 1)
    /\ pc' = IF Len(stack) = 1 THEN "done" ELSE "ret"
    /\ UNCHANGED <<called, origin, obs, oksVars>>

\* the number of Error frames of a chain
RECURSIVE Depth(_)
Depth(e) ==
    IF e.tag # "Error" THEN 0
    ELSE IF e.kind.tag = "String" THEN 1
    ELSE 1 + Depth(e.kind.e)

\* the error j levels below e (matching on the public field kind), if there is one
RECURSIVE Sub(_, _)
Sub(e, j) ==
    IF j = 0 THEN e
    ELSE IF e.tag = "Error" /\ e.kind.tag = "Wrapped" THEN Sub(e.kind.e, j - 1)
    ELSE [tag |-> "Nothing"]

Failed == pc = "done" /\ res.tag = "Err"

ShowDisplay ==
    /\ Failed
    /\ obs' = [op |-> "display", val |-> Display(res.e)]
    /\ UNCHANGED <<pc, stack, res, resumed, called, origin, oksVars>>

ShowDebug ==
    /\ Failed
    /\ obs' = [op |-> "debug", val |-> Debug(res.e)]
    /\ UNCHANGED <<pc, stack, res, resumed, called, origin, oksVars>>

GetDescription ==
    /\ Failed
    /\ obs' = [op |-> "description", val |-> Description(res.e)]
    /\ UNCHANGED <<pc, stack, res, resumed, called, origin, oksVars>>

GetCause(j) ==
    /\ Failed
    /\ j < Depth(res.e)
    /\ obs' = [op |-> "cause", level |-> j, val |-> Cause(Sub(res.e, j))]
    /\ UNCHANGED <<pc, stack, res, resumed, called, origin, oksVars>>

(***************************************************************************)
(* Oks (src/oks.rs).  The source is any iterator: a stream of next()       *)
(* results, src[n] being what the n-th call returns and None every call    *)
(* after the last entry.  An entry may itself be None (an iterator that is *)
(* not fused).  An iterator is its cursor into that stream.                *)
(***************************************************************************)
Elems == { 0, 1 }

Scripts == UNION { [1..n -> {None} \cup {Some(x) : x \in Elems}] : n \in 0..MaxLen }

ItemAt(n) == IF n <= Len(src) THEN src[n] ELSE None

\* self.source.next(): the item, and the source afterwards
IterNext(it) == [item |-> ItemAt(it.pos + 1), it |-> [pos |-> it.pos + 1]]

\* self.source.clone()
IterClone(it) == [pos |-> it.pos]

\* a conversion that primes the adapter with the first element
OksOfPrimed(source) == [source |-> IterNext(source).it]

OksOf(source) == [source |-> source]

\* a next() that looks one element ahead to decide whether it is the last
OksNextPeek(self) ==
    LET r == IterNext(self.source)
        ahead == IterNext(r.it) IN
      [self |-> [source |-> IF ahead.item.tag = "None" THEN ahead.it ELSE r.it],
       item |-> IF r.item.tag = "Some" THEN Some(Ok(r.item.v)) ELSE None]

OksNext(self) ==
    LET r == IterNext(self.source) IN
      [self |-> [source |-> r.it],
       item |-> IF r.item.tag = "Some" THEN Some(Ok(r.item.v)) ELSE None]

\* a clone that restarts the source
OksCloneRestart(self) == [source |-> [pos |-> 0]]

OksClone(self) == [source |-> IterClone(self.source)]

InitOks ==
    /\ src \in Scripts
    /\ raw = Some([pos |-> 0])
    /\ its = <<>>
    /\ outs = <<>>
    /\ born = <<>>

\* no iterator in play
IdleOks ==
    /\ src = <<>>
    /\ raw = None
    /\ its = <<>>
    /\ outs = <<>>
    /\ born = <<>>

\* the caller consumes an element of the source before handing it over
SrcAdvance ==
    /\ raw.tag = "Some"
    /\ raw.v.pos < MaxLen
    /\ raw' = Some(IterNext(raw.v).it)
    /\ UNCHANGED <<src, its, outs, born, errVars>>

\* source.oks()
MakeOks ==
    /\ raw.tag = "Some"
    /\ its' = <<OksOf(raw.v)>>
    /\ raw' = None
    /\ outs' = << <<>> >>
    /\ born' = <<[pos |-> raw.v.pos, parent |-> 0, at |-> 0]>>
    /\ UNCHANGED <<src, errVars>>

\* its[i].next()
CallNext(i) ==
    /\ i \in DOMAIN its
    /\ Len(outs[i]) < MaxCalls
    /\ LET r == OksNext(its[i]) IN
         /\ its' = [its EXCEPT ![i] = r.self]
         /\ outs' = [outs EXCEPT ![i] = Append(@, r.item)]
    /\ UNCHANGED <<src, raw, born, errVars>>

\* its[i].clone()
CallClone(i) ==
    /\ i \in DOMAIN its
    /\ Len(its) < 1 + MaxClones
    /\ its' = Append(its, OksClone(its[i]))
    /\ outs' = Append(outs, <<>>)
    /\ born' = Append(born, [pos |-> its[i].source.pos, parent |-> i, at |-> Len(outs[i])])
    /\ UNCHANGED <<src, raw, errVars>>

NextOks ==
    \/ SrcAdvance
    \/ MakeOks
    \/ \E i \in 1..(1 + MaxClones) : CallNext(i)
    \/ \E i \in 1..(1 + MaxClones) : CallClone(i)

NextErr ==
    \/ \E site \in Sites : Call(site)
    \/ \E r \in {Ok(v) : v \in Values} \cup {Err(e) : e \in ForeignErrors} : LeafExpr(r)
    \/ \E m \in Messages, site \in Sites : LeafNewResult(m, site)
    \/ \E exp \in {None} \cup {Some(v) : v \in Values}, m \in Messages, site \in Sites :
          LeafTryOpt(exp, m, site)
    \/ \E exp \in {None} \cup {Some(v) : v \in Values}, m \in Messages, site \in Sites :
          LeafTryOptRef(exp, m, site)
    \/ Propagate
    \/ ShowDisplay
    \/ ShowDebug
    \/ GetDescription
    \/ \E j \in 0..MaxDepth : GetCause(j)

\* a program using the error macros
StartErr == InitErr /\ IdleOks
SpecErr == StartErr /\ [][NextErr]_vars

\* a program iterating Oks adapters
StartOks == InitErr /\ InitOks
SpecOks == StartOks /\ [][NextOks]_vars

(***************************************************************************)
(* What the claims speak of, written from the inputs the history holds.    *)
(***************************************************************************)
\* one <error> element, tags in order, nothing between them
Element(file, line, reason) ==
    ErrorOpen \o FileOpen \o file \o FileClose \o LineOpen \o Decimal(line) \o LineClose
    \o ReasonOpen \o reason \o ReasonClose \o ErrorClose

\* the leaf error a message and a call site give
Leaf(m, site) ==
    [tag |-> "Error", file |-> site.file, line |-> site.line,
     kind |-> [tag |-> "String", s |-> m]]

\* the elements of the given call sites, outermost first, around a text
RECURSIVE Nest(_, _)
Nest(sites, text) ==
    IF sites = <<>> THEN text
    ELSE Element(Head(sites).file, Head(sites).line, Nest(Tail(sites), text))

\* how often "<error>" occurs in a text
CountOpen(text) ==
    Cardinality({ i \in 1..Len(text) :
                    i + 6 <= Len(text) /\ SubSeq(text, i, i + 6) = ErrorOpen })

ByMessage == origin.how \in {"new_result", "try_opt", "try_opt_ref"}

OriginFailed ==
    \/ origin.how = "new_result"
    \/ origin.how = "expr" /\ origin.r.tag = "Err"
    \/ origin.how \in {"try_opt", "try_opt_ref"} /\ origin.exp.tag = "None"

OriginSucceeded ==
    \/ origin.how = "expr" /\ origin.r.tag = "Ok"
    \/ origin.how \in {"try_opt", "try_opt_ref"} /\ origin.exp.tag = "Some"

\* the original failure, and its text
OriginError == IF origin.how = "expr" THEN origin.r.e ELSE Leaf(origin.m, origin.site)
OriginText ==
    IF origin.how = "expr" THEN origin.r.e.text
    ELSE Element(origin.site.file, origin.site.line, origin.m)

\* the value the innermost operation gave
OriginValue ==
    IF origin.how = "expr" THEN origin.r.v
    ELSE IF origin.how = "try_opt" THEN origin.exp.v
    ELSE [tag |-> "Ref", to |-> origin.exp.v]

\* the functions that have returned so far, innermost last
Returned == Len(called) - Len(stack)

C3_TryWrapPropagates ==
    (pc \in {"ret", "done"})
        => IF OriginFailed
           THEN /\ res.tag = "Err"
                /\ resumed = {}
                /\ \A i \in 1..Returned :
                     LET frame == Sub(res.e, i - 1)
                         site == called[Len(stack) + i] IN
                       /\ frame.tag = "Error"
                       /\ frame.file = site.file
                       /\ frame.line = site.line
                       /\ frame.kind.tag = "Wrapped"
                /\ Sub(res.e, Returned) = OriginError
           ELSE /\ res = [tag |-> "Ok", v |-> OriginValue]
                /\ \A d \in 1..Len(called) : d \in resumed <=> d > Len(stack)

C3_Witness ==
    /\ pc = "done"
    /\ Len(called) = 3
    /\ origin.how = "expr"
    /\ origin.r = Err(ParseIntError)
    /\ res.e.kind.e.kind.e.kind.e = ParseIntError
    /\ resumed = {}

\* C4: cause() of an error of the message kind is None; cause() of an error
\* of kind Wrapped(inner) is inner.cause(), never Some(inner): at every level
\* of a chain it is the answer of the level below, down to the original
\* failure's own upstream cause.
C4_CauseDelegates ==
    (obs.op = "cause")
        => LET e == Sub(res.e, obs.level) IN
             /\ e.kind.tag = "String" => obs.val = [tag |-> "None"]
             /\ e.kind.tag = "Wrapped" =>
                  /\ obs.val # [tag |-> "Some", v |-> e.kind.e]
                  /\ obs.val = (IF origin.how = "expr" THEN origin.r.e.cause
                                ELSE [tag |-> "None"])
                  /\ e.kind.e.tag = "Error" => obs.val = Cause(e.kind.e)

C4_Witness ==
    /\ obs.op = "cause"
    /\ obs.level = 0
    /\ Depth(res.e) = 3
    /\ origin.how = "expr"
    /\ origin.r = Err(OuterError)
    /\ obs.val = [tag |-> "Some", v |-> ParseIntError]

\* C6: try_opt! and try_opt_ref! on Some(x) yield x (a reference to x) and
\* the function goes on; on None the function returns at once with Err of a
\* leaf Error of the message kind holding the message, at the call site.
C6_TryOptOnAbsence ==
    (pc \in {"ret", "done"} /\ Returned = 0 /\ origin.how \in {"try_opt", "try_opt_ref"})
        => IF origin.exp.tag = "Some"
           THEN /\ res = [tag |-> "Ok",
                          v |-> IF origin.how = "try_opt" THEN origin.exp.v
                                ELSE [tag |-> "Ref", to |-> origin.exp.v]]
                /\ (Len(called) + 1) \in resumed
           ELSE /\ res = [tag |-> "Err", e |-> Leaf(origin.m, origin.site)]
                /\ res.e.kind.tag = "String"
                /\ (Len(called) + 1) \notin resumed

C6_Witness ==
    /\ pc = "done"
    /\ called = <<>>
    /\ origin.how = "try_opt_ref"
    /\ origin.exp = None
    /\ origin.m = MsgPlain
    /\ res.tag = "Err"
    /\ res.e.kind = [tag |-> "String", s |-> MsgPlain]
    /\ res.e.line = origin.site.line

\* C7: new_result!(m) is Err(E), never Ok, E being new_error!(m): a leaf of
\* the message kind holding m, at the call site, which renders as one element
\* with reason m: the only "<error>" openings besides its own are those of m.
C7_NewResultIsLeafFailure ==
    (pc \in {"ret", "done"} /\ Returned = 0 /\ origin.how = "new_result")
        => /\ res.tag = "Err"
           /\ res.e = NewError(origin.m, origin.site)
           /\ res.e = Leaf(origin.m, origin.site)
           /\ Display(res.e) = Element(origin.site.file, origin.site.line, origin.m)
           /\ CountOpen(Display(res.e)) = 1 + CountOpen(origin.m)

C7_Witness ==
    /\ pc = "done"
    /\ called = <<>>
    /\ origin.how = "new_result"
    /\ origin.m = MsgPlain
    /\ res.tag = "Err"
    /\ res.e.kind.tag = "String"
    /\ CountOpen(Display(res.e)) = 1

\* C8: an Error does not change once built: every step that starts with an
\* error in flight ends with that same error, either untouched (Display,
\* Debug, description, cause) or, untouched, as the cause of a new Error.
C8_ErrorImmutable ==
    [][res.tag = "Err"
         => /\ res'.tag = "Err"
            /\ \/ res'.e = res.e
               \/ res'.e.kind.tag = "Wrapped" /\ res'.e.kind.e = res.e]_vars

C8_Witness ==
    /\ pc = "done"
    /\ obs.op = "debug"
    /\ Len(called) = 2
    /\ origin.how = "try_opt"
    /\ origin.exp = None
    /\ res.e.kind.e.kind.e = Leaf(origin.m, origin.site)

(***************************************************************************)
(* Oks.                                                                    *)
(***************************************************************************)
\* the source is a plain finite sequence: every entry is an element
Finite == \A n \in 1..Len(src) : src[n].tag = "Some"

\* C5: over a finite source of N elements the adapter made by oks() gives
\* Some(Ok(x)) for each element x in source order and then None: no Err, no
\* element dropped, doubled, moved or changed.
C5_OksPreservesSource ==
    (Finite /\ its # <<>>)
        => \A k \in 1..Len(outs[1]) :
             LET n == born[1].pos + k IN
               outs[1][k] = (IF n <= Len(src)
                             THEN [tag |-> "Some", v |-> [tag |-> "Ok", v |-> src[n].v]]
                             ELSE [tag |-> "None"])

C5_Witness ==
    /\ src = <<Some(0), Some(1)>>
    /\ its # <<>>
    /\ born[1].pos = 0
    /\ outs[1] = <<Some(Ok(0)), Some(Ok(1)), None>>

\* C9: a clone made after k next() calls gives the items from position k on,
\* in the order the original gives them, and the two are independent:
\* however their next() calls interleave, each gives the items that follow
\* the cursor it was made with.
C9_CloneContinues ==
    \A j \in DOMAIN its :
        born[j].parent # 0 =>
            LET p == born[j].parent IN
              /\ born[j].pos = born[p].pos + born[j].at
              /\ \A n \in 1..Len(outs[j]) :
                   LET item == ItemAt(born[p].pos + born[j].at + n) IN
                     /\ outs[j][n] = (IF item.tag = "Some"
                                      THEN [tag |-> "Some", v |-> [tag |-> "Ok", v |-> item.v]]
                                      ELSE [tag |-> "None"])
                     /\ born[j].at + n <= Len(outs[p]) => outs[j][n] = outs[p][born[j].at + n]
              /\ \A n \in 1..Len(outs[p]) :
                   LET item == ItemAt(born[p].pos + n) IN
                     outs[p][n] = (IF item.tag = "Some"
                                   THEN [tag |-> "Some", v |-> [tag |-> "Ok", v |-> item.v]]
                                   ELSE [tag |-> "None"])

C9_Witness ==
    /\ src = <<Some(0), Some(1)>>
    /\ Len(its) = 2
    /\ born[1].pos = 0
    /\ born[2] = [pos |-> 1, parent |-> 1, at |-> 1]
    /\ outs[1] = <<Some(Ok(0)), Some(Ok(1)), None>>
    /\ outs[2] = <<Some(Ok(1)), None>>

\* C10: the adapter is lazy and is nothing but its source: oks() consumes no
\* element, every next() moves the source's cursor by one call, and the
\* adapter answers None exactly where the source does, also after the end.
C10_OksLazy ==
    \A i \in DOMAIN its :
        /\ DOMAIN its[i] = {"source"}
        /\ its[i].source.pos = born[i].pos + Len(outs[i])
        /\ \A k \in 1..Len(outs[i]) :
             outs[i][k].tag = "None" <=> ItemAt(born[i].pos + k).tag = "None"

C10_Witness ==
    /\ src = <<Some(1)>>
    /\ Len(its) = 1
    /\ born[1].pos = 0
    /\ its[1].source.pos = 4
    /\ outs[1] = <<Some(Ok(1)), None, None, None>>

====
